---- MODULE Spec2Model ----
(***************************************************************************)
(* CTF Sentinel (src/CTF.py): the notification scheduling core of the bot. *)
(* The in-memory stores of CTFDataManager, their JSON files, the three     *)
(* periodic jobs, the slash commands and the button handlers, as a state   *)
(* machine.  Handlers are atomic between the points where they await an    *)
(* operation of the chat platform (asyncio runs one coroutine at a time).  *)
(* Times are in seconds, as the timestamps of the source are.              *)
(***************************************************************************)
EXTENDS Integers, Sequences, FiniteSets, TLC

\* ------------------------------------------------------------------ bounds
\* slash commands, button presses, flushes and repeated ready events that
\* change the state, in one behaviour
MaxOps == 1
\* handles the client cache fails to resolve during one synchronous run
MaxUnresolved == 1
\* the delivery counter of a (tenant, EventKey, kind) saturates here
MaxDelivered == 2

\* ------------------------------------------------------- values and inputs
Tenants == {1, 2}

Kinds == {"24h", "1h", "channel_1h", "archived"}

\* Optional[...]: None is <<>>, a value x is <<x>>
None == <<>>

Some(x) == <<x>>

\* the start field of a feed event: a parseable ISO string carries its
\* timestamp, any other string (or a missing field) carries none
GoodTime(ts) == [ok |-> TRUE, ts |-> ts]

BadTime == [ok |-> FALSE, ts |-> 0]

EvA == [title |-> "a", id |-> 1, start |-> GoodTime(100000)]

EvB == [title |-> "b", id |-> 2, start |-> BadTime]

\* a second event with a parseable start, at the same instant as EvA
EvC == [title |-> "c", id |-> 3, start |-> GoodTime(100000)]

AllEvents == {EvA, EvB, EvC}

\* the bodies the feed may answer with
FeedOptions == {<<EvA, EvB>>, <<EvB>>}

\* instants at which the wall clock is read: 25 h and 1.5 h before the start
\* of EvA
TimePoints == <<10000, 94600>>

\* instants at which the window rules are probed: 25.01 h, 25 h, 24 h, 23 h,
\* 22.99 h, 1.51 h, 1.5 h, 1 s, 0 h before the start of EvA and 1 h after it
Probes == {9964, 10000, 13600, 17200, 17236, 94564, 94600, 99999, 100000, 103600}

Passes == {"task", "setup"}

\* the guild whose members press the join button and run the settings and reset
\* commands (every guild can be set up and can press skip), and the events
\* whose buttons are pressed: skip on EvA, join on both
CmdTenants == {1}

ButtonEvents == {EvA}

JoinEvents == {EvA, EvB}

\* snowflakes are opaque: a guild is named by its id, a channel by guild and name
GuildHandle(g) == [g |-> g, name |-> ""]

PrimaryChannel(g) == [g |-> g, name |-> "general"]

EventChannel(g, name) == [g |-> g, name |-> name]

\* ------------------------------------------------------------ ordered dicts
\* a Python dict keeps insertion order: a sequence of [k, v] entries
Has(d, k) == \E i \in 1..Len(d) : d[i].k = k

Idx(d, k) == CHOOSE i \in 1..Len(d) : d[i].k = k

Get(d, k) == d[Idx(d, k)].v

Put(d, k, v) ==
    IF Has(d, k) THEN [d EXCEPT ![Idx(d, k)].v = v]
    ELSE Append(d, [k |-> k, v |-> v])

\* a dict whose order is never observed: a function; d[k] = v on it
Assign(f, k, v) == [x \in DOMAIN f \cup {k} |-> IF x = k THEN v ELSE f[x]]

\* dict keys of the per-tenant stores: an int gid or a str gid
IntKey(g) == [t |-> "int", g |-> g]

StrKey(g) == [t |-> "str", g |-> g]

\* str(gid) and int(gid) applied to a key of either type
py_str(k) == [t |-> "str", g |-> k.g]

py_int(k) == [t |-> "int", g |-> k.g]

\* ------------------------------------------------------------------- state
VARIABLES
    ctf_cache,          \* data_manager.ctf_cache: ordered dict EventKey -> event
    guild_configs,      \* data_manager.guild_configs: ordered dict gid -> config
    sent_notifications, \* data_manager.sent_notifications: ordered dict gid -> kind -> collection
    guild_ctf_status,   \* data_manager.guild_ctf_status: gid -> EventKey -> status
    files,              \* the four JSON files: None when absent, else <<content>>
    text_channels,      \* the text channels that exist in the guilds
    clock,              \* index into TimePoints: the wall clock
    pass,               \* the two evaluation passes (periodic job, setup command)
    jobs,               \* the periodic jobs: started, the check job still looping; and
                        \* run, the number of the process run
    delivered,          \* messages delivered per (tenant, EventKey, kind) since the tenant's reset
    used,               \* the commands, presses, flushes and ready events counted by MaxOps
    last                \* the handler entered most recently, and its guild

vars == <<ctf_cache, guild_configs, sent_notifications, guild_ctf_status, files,
          text_channels, clock, pass, jobs, delivered, used, last>>

\* ---------------------------------------------------------------- utilities
\* get_ctf_id: f"{title}_{eid}"
get_ctf_id(event) == event.title \o "_" \o ToString(event.id)

AllKeys == {get_ctf_id(e) : e \in AllEvents}

\* a parser that falls back to a fixed instant when no format matches
parse_ctf_time_to_timestamp_FallsBack(time_str) ==
    IF time_str.ok THEN Some(time_str.ts) ELSE Some(100000)

\* parse_ctf_time_to_timestamp: the timestamp, or None when no format matches
parse_ctf_time_to_timestamp(time_str) ==
    IF time_str.ok THEN Some(time_str.ts) ELSE None

\* "if not start_ts": None and 0 are falsy
Falsy(x) == x = None \/ x[1] = 0

\* sanitize_channel_name on the titles of AllEvents (lower-case alphanumerics
\* pass through unchanged; an empty result becomes 'ctf-channel')
sanitize_channel_name(title) == IF title = "" THEN "ctf-channel" ELSE title

\* bot.get_channel / bot.get_guild: the handle, or None when the client cache
\* does not hold it; u is the set of handles missing from the cache
bot_get_channel(id, u) == IF id \in u THEN None ELSE Some(id)

bot_get_guild(g, u) == IF GuildHandle(g) \in u THEN None ELSE Some(g)

\* ------------------------------------------------------------ tenant config
DEFAULT_CONFIG == [notification_24h |-> TRUE, notification_1h |-> TRUE]

NewConfig ==
    [setup_complete |-> FALSE, channel_id |-> None, settings |-> DEFAULT_CONFIG,
     ctf_channels |-> <<>>]

\* get_guild_config: the store after the call (the entry is created on first access)
get_guild_config(gc, gid) ==
    IF Has(gc, IntKey(gid)) THEN gc ELSE Append(gc, [k |-> IntKey(gid), v |-> NewConfig])

\* the config the call returns
ConfigOf(gc, gid) == Get(get_guild_config(gc, gid), IntKey(gid))

\* a selection that takes every guild with a config
get_setup_guilds_EveryConfig(gc) ==
    LET F[i \in 0..Len(gc)] ==
          IF i = 0 THEN <<>> ELSE Append(F[i - 1], py_int(gc[i].k).g)
    IN F[Len(gc)]

\* get_setup_guilds: the ids of the set-up guilds, in dict order
get_setup_guilds(gc) ==
    LET F[i \in 0..Len(gc)] ==
          IF i = 0 THEN <<>>
          ELSE IF gc[i].v.setup_complete THEN Append(F[i - 1], py_int(gc[i].k).g)
               ELSE F[i - 1]
    IN F[Len(gc)]

\* get_guild_channel_id
get_guild_channel_id(gc, gid) ==
    IF ~ConfigOf(gc, gid).setup_complete THEN None ELSE ConfigOf(gc, gid).channel_id

\* set_guild_channel_id
set_guild_channel_id(gc, gid, channel_id) ==
    LET gc1 == get_guild_config(gc, gid)
    IN [gc1 EXCEPT ![Idx(gc1, IntKey(gid))].v.channel_id = Some(channel_id),
                   ![Idx(gc1, IntKey(gid))].v.setup_complete = TRUE]

\* get_guild_setting
get_guild_setting(gc, gid, setting) == ConfigOf(gc, gid).settings[setting]

\* set_guild_setting
set_guild_setting(gc, gid, setting, value) ==
    LET gc1 == get_guild_config(gc, gid)
    IN [gc1 EXCEPT ![Idx(gc1, IntKey(gid))].v.settings[setting] = value]

\* register_ctf_channel (also written inline by join_ctf)
register_ctf_channel(gc, gid, ctf_id, channel_id) ==
    LET gc1 == get_guild_config(gc, gid)
        cfg == Get(gc1, IntKey(gid))
    IN [gc1 EXCEPT ![Idx(gc1, IntKey(gid))].v.ctf_channels =
                       Assign(cfg.ctf_channels, ctf_id, channel_id)]

\* get_ctf_channel: config["ctf_channels"].get(ctf_id)
get_ctf_channel(gc, gid, ctf_id) ==
    LET ch == ConfigOf(gc, gid).ctf_channels
    IN IF ctf_id \in DOMAIN ch THEN Some(ch[ctf_id]) ELSE None

\* ------------------------------------------------------ notification record
NewNotifications == [ty |-> "set", m |-> [k \in Kinds |-> {}]]

\* get_guild_notifications: the store after the call
get_guild_notifications(sn, gid) ==
    IF Has(sn, IntKey(gid)) THEN sn
    ELSE Append(sn, [k |-> IntKey(gid), v |-> NewNotifications])

\* has_notification_been_sent
has_notification_been_sent(sn, gid, ctf_id, type) ==
    ctf_id \in Get(get_guild_notifications(sn, gid), IntKey(gid)).m[type]

\* mark_notification_sent
mark_notification_sent(sn, gid, ctf_id, type) ==
    LET sn1 == get_guild_notifications(sn, gid)
    IN [sn1 EXCEPT ![Idx(sn1, IntKey(gid))].v.m[type] = @ \cup {ctf_id}]

\* ----------------------------------------------------- participation status
\* the four helpers below are called by the source but defined nowhere in it;
\* they follow the participation state machine of the specification
StatusOf(st, gid, ctf_id) ==
    IF IntKey(gid) \in DOMAIN st /\ ctf_id \in DOMAIN st[IntKey(gid)]
    THEN st[IntKey(gid)][ctf_id] ELSE "untouched"

is_ctf_joined(st, gid, ctf_id) == StatusOf(st, gid, ctf_id) = "joined"

should_send_notification(st, gid, ctf_id) == StatusOf(st, gid, ctf_id) = "untouched"

SetStatus(st, gid, ctf_id, s) ==
    LET old == IF IntKey(gid) \in DOMAIN st THEN st[IntKey(gid)] ELSE <<>>
    IN Assign(st, IntKey(gid), Assign(old, ctf_id, s))

mark_ctf_joined(st, gid, ctf_id) ==
    IF StatusOf(st, gid, ctf_id) = "untouched" THEN SetStatus(st, gid, ctf_id, "joined")
    ELSE st

mark_ctf_skipped(st, gid, ctf_id) ==
    IF StatusOf(st, gid, ctf_id) = "untouched" THEN SetStatus(st, gid, ctf_id, "skipped")
    ELSE st

\* -------------------------------------------------------------- persistence
\* list(v) and set(v) of the four collections of an entry (a JSON array is
\* modelled by its elements: the only arrays written hold distinct EventKeys)
AsLists(v) == [ty |-> "list", m |-> v.m]

AsSets(v) == [ty |-> "set", m |-> v.m]

\* the dict comprehensions of save_* and load_*: entries are taken in dict
\* order, a later entry overwriting an earlier one with the same converted key

\* save_guild_configs: the content written
save_guild_configs(gc) ==
    LET F[i \in 0..Len(gc)] ==
          IF i = 0 THEN <<>> ELSE Put(F[i - 1], py_str(gc[i].k), gc[i].v)
    IN F[Len(gc)]

\* load_guild_configs: the dict loaded from a content
load_guild_configs(loaded) ==
    LET F[i \in 0..Len(loaded)] ==
          IF i = 0 THEN <<>> ELSE Put(F[i - 1], py_int(loaded[i].k), loaded[i].v)
    IN F[Len(loaded)]

\* save_sent_notifications
save_sent_notifications(sn) ==
    LET F[i \in 0..Len(sn)] ==
          IF i = 0 THEN <<>> ELSE Put(F[i - 1], py_str(sn[i].k), AsLists(sn[i].v))
    IN F[Len(sn)]

\* a load that keeps the keys as the file has them
load_sent_notifications_KeepsFileKeys(loaded) ==
    LET F[i \in 0..Len(loaded)] ==
          IF i = 0 THEN <<>>
          ELSE Put(F[i - 1], loaded[i].k, AsSets(loaded[i].v))
    IN F[Len(loaded)]

\* load_sent_notifications
load_sent_notifications(loaded) ==
    LET F[i \in 0..Len(loaded)] ==
          IF i = 0 THEN <<>>
          ELSE Put(F[i - 1], py_int(loaded[i].k), AsSets(loaded[i].v))
    IN F[Len(loaded)]

\* save_guild_ctf_status / load_guild_ctf_status
save_guild_ctf_status(st) ==
    [k \in {py_str(x) : x \in DOMAIN st} |-> st[CHOOSE x \in DOMAIN st : py_str(x) = k]]

load_guild_ctf_status(loaded) ==
    [k \in {py_int(x) : x \in DOMAIN loaded} |->
        loaded[CHOOSE x \in DOMAIN loaded : py_int(x) = k]]

\* save_ctf_cache / load_ctf_cache: a str-keyed dict of JSON values is its own JSON
save_ctf_cache(cache) == cache

load_ctf_cache(loaded) == loaded

NoFiles == [configs |-> None, notifs |-> None, status |-> None, cache |-> None]

\* save_all: the four files after the call
save_all(gc, sn, st, cache) ==
    [configs |-> Some(save_guild_configs(gc)),
     notifs |-> Some(save_sent_notifications(sn)),
     status |-> Some(save_guild_ctf_status(st)),
     cache |-> Some(save_ctf_cache(cache))]

Datasets == {"configs", "notifs", "status", "cache"}

\* save_all when the writes of the datasets in fail raise at open(): the saves
\* run in the order configs, notifs, status, cache; the first three catch
\* nothing, so the first of them to raise ends save_all; save_ctf_cache
\* catches its own exception. A save that raises at open() leaves its file
\* as it was.
save_all_on(fs, gc, sn, st, cache, fail) ==
    LET want == save_all(gc, sn, st, cache)
        order == <<"configs", "notifs", "status", "cache">>
        stop == IF "configs" \in fail THEN 1
                ELSE IF "notifs" \in fail THEN 2
                ELSE IF "status" \in fail THEN 3 ELSE 5
        pos(d) == CHOOSE i \in 1..4 : order[i] = d
    IN [raised |-> stop < 5,
        files |-> [d \in Datasets |->
                     IF pos(d) < stop /\ d \notin fail THEN want[d] ELSE fs[d]]]

\* ---------------------------------------------------------- trigger windows
SecondsPerHour == 3600

\* the 24h window with its upper bound excluded
In24hWindow_UpperExclusive(secs) ==
    23 * SecondsPerHour <= secs /\ secs < 25 * SecondsPerHour

\* 23 <= hours_until <= 25, with hours_until = secs / 3600
In24hWindow(secs) == 23 * SecondsPerHour <= secs /\ secs <= 25 * SecondsPerHour

\* the 1h window with the start instant included
In1hWindow_ZeroInclusive(secs) == 0 <= secs /\ 2 * secs <= 3 * SecondsPerHour

\* 0 < hours_until <= 1.5
In1hWindow(secs) == 0 < secs /\ 2 * secs <= 3 * SecondsPerHour

NoDecision(sn, gc) == [kind |-> "none", chan |-> None, sn |-> sn, gc |-> gc]

\* send_ctf_channel_reminder up to its await: the channel the reminder is handed
\* to, None when the function returns False before sending
ReminderChannel(gc, gid, ctf_id, u) ==
    LET channel_id == get_ctf_channel(gc, gid, ctf_id)
    IN IF channel_id = None THEN None ELSE bot_get_channel(channel_id[1], u)

\* send_guild_notification up to its await: the channel the alert is handed to,
\* None when the function returns before sending
AlertChannel(gc, gid, u) ==
    LET channel_id == get_guild_channel_id(gc, gid)
    IN IF channel_id = None THEN None ELSE bot_get_channel(channel_id[1], u)

\* the joined/skipped branch made to depend on the notification_1h setting
ReminderBranch_NeedsSetting(gid, cid, secs, sn, gc, st, u) ==
    IF is_ctf_joined(st, gid, cid) /\ In1hWindow(secs)
       /\ get_guild_setting(gc, gid, "notification_1h")
    THEN IF ~has_notification_been_sent(sn, gid, cid, "channel_1h")
         THEN [kind |-> "channel_1h",
               chan |-> ReminderChannel(gc, gid, cid, u),
               sn |-> get_guild_notifications(sn, gid),
               gc |-> get_guild_config(gc, gid)]
         ELSE NoDecision(get_guild_notifications(sn, gid), gc)
    ELSE NoDecision(sn, gc)

\* the joined/skipped branch of the loop body of check_notification_triggers
ReminderBranch(gid, cid, secs, sn, gc, st, u) ==
    IF is_ctf_joined(st, gid, cid) /\ In1hWindow(secs)
    THEN IF ~has_notification_been_sent(sn, gid, cid, "channel_1h")
         THEN [kind |-> "channel_1h",
               chan |-> ReminderChannel(gc, gid, cid, u),
               sn |-> get_guild_notifications(sn, gid),
               gc |-> get_guild_config(gc, gid)]
         ELSE NoDecision(get_guild_notifications(sn, gid), gc)
    ELSE NoDecision(sn, gc)

\* the 24h / 1h branch of the loop body of check_notification_triggers
PrimaryBranch(gid, cid, secs, sn, gc, u) ==
    IF In24hWindow(secs) /\ get_guild_setting(gc, gid, "notification_24h")
    THEN IF ~has_notification_been_sent(sn, gid, cid, "24h")
         THEN [kind |-> "24h", chan |-> AlertChannel(gc, gid, u),
               sn |-> get_guild_notifications(sn, gid),
               gc |-> get_guild_config(gc, gid)]
         ELSE NoDecision(get_guild_notifications(sn, gid), get_guild_config(gc, gid))
    ELSE IF In1hWindow(secs) /\ get_guild_setting(gc, gid, "notification_1h")
    THEN IF ~has_notification_been_sent(sn, gid, cid, "1h")
         THEN [kind |-> "1h", chan |-> AlertChannel(gc, gid, u),
               sn |-> get_guild_notifications(sn, gid),
               gc |-> get_guild_config(gc, gid)]
         ELSE NoDecision(get_guild_notifications(sn, gid), get_guild_config(gc, gid))
    ELSE NoDecision(sn, IF In24hWindow(secs) \/ In1hWindow(secs)
                        THEN get_guild_config(gc, gid) ELSE gc)

\* an iteration that sends only a joined pair to the reminder branch
EvalPair_SkippedStillAlerted(gid, cid, event, now, sn, gc, st, u) ==
    LET start_ts == parse_ctf_time_to_timestamp(event.start)
    IN IF Falsy(start_ts) THEN NoDecision(sn, gc)
       ELSE IF is_ctf_joined(st, gid, cid)
            THEN ReminderBranch(gid, cid, start_ts[1] - now, sn, gc, st, u)
            ELSE PrimaryBranch(gid, cid, start_ts[1] - now, sn, gc, u)

\* one iteration of the inner loop of check_notification_triggers, up to the
\* first await: kind is the send routine the iteration calls ("none": neither),
\* chan the channel the message is handed to (None: the routine returned
\* before sending), sn and gc the stores after the lazy creations of the calls
EvalPair(gid, cid, event, now, sn, gc, st, u) ==
    LET start_ts == parse_ctf_time_to_timestamp(event.start)
    IN IF Falsy(start_ts) THEN NoDecision(sn, gc)
       ELSE IF ~should_send_notification(st, gid, cid)
            THEN ReminderBranch(gid, cid, start_ts[1] - now, sn, gc, st, u)
            ELSE PrimaryBranch(gid, cid, start_ts[1] - now, sn, gc, u)

\* ---------------------------------------------------------- evaluation pass
NoPend == [cid |-> "", kind |-> "none", chan |-> None]

IdlePass == [pc |-> "idle", now |-> 0, gid |-> 0, guilds |-> <<>>, events |-> <<>>,
             pend |-> NoPend]

\* check_notification_triggers from a point of its loops to its next await:
\* ScanEvents continues the inner loop of guild gid over the entries evs of the
\* dict it iterates, ScanGuilds the outer loop over the guild ids left.  The
\* result is the pass at its next suspension (or idle, when the function
\* returns) with the stores as the run leaves them.
RECURSIVE ScanEvents(_, _, _, _, _, _, _, _, _)
RECURSIVE ScanGuilds(_, _, _, _, _, _, _)
\* the inner loop after the iteration on Head(evs) decided r
AfterPair(r, gid, evs, guilds, now, cache, st, u) ==
    IF r.chan /= None
    THEN [p |-> [pc |-> IF r.kind = "channel_1h" THEN "send_reminder" ELSE "send_guild",
                 now |-> now, gid |-> gid, guilds |-> guilds, events |-> Tail(evs),
                 pend |-> [cid |-> Head(evs).k, kind |-> r.kind, chan |-> r.chan]],
          sn |-> r.sn, gc |-> r.gc]
    ELSE ScanEvents(gid, Tail(evs), guilds, now, r.sn, r.gc, cache, st, u)

ScanEvents(gid, evs, guilds, now, sn, gc, cache, st, u) ==
    IF evs = <<>> THEN ScanGuilds(guilds, now, sn, gc, cache, st, u)
    ELSE AfterPair(EvalPair(gid, Head(evs).k, Head(evs).v, now, sn, gc, st, u),
                   gid, evs, guilds, now, cache, st, u)

\* an outer loop that returns at the first guild the client cannot resolve
ScanGuilds_ReturnsAtMissingGuild(guilds, now, sn, gc, cache, st, u) ==
    IF guilds = <<>> THEN [p |-> IdlePass, sn |-> sn, gc |-> gc]
    ELSE IF bot_get_guild(Head(guilds), u) = None
         THEN [p |-> IdlePass, sn |-> sn, gc |-> gc]
         ELSE ScanEvents(Head(guilds), cache, Tail(guilds), now, sn, gc, cache, st, u)

ScanGuilds(guilds, now, sn, gc, cache, st, u) ==
    IF guilds = <<>> THEN [p |-> IdlePass, sn |-> sn, gc |-> gc]
    ELSE IF bot_get_guild(Head(guilds), u) = None
         THEN ScanGuilds(Tail(guilds), now, sn, gc, cache, st, u)
         ELSE ScanEvents(Head(guilds), cache, Tail(guilds), now, sn, gc, cache, st, u)

\* check_notification_triggers from its first line
check_notification_triggers(now, sn, gc, cache, st, u) ==
    ScanGuilds(get_setup_guilds(gc), now, sn, gc, cache, st, u)

\* ------------------------------------------------------------------ actions
\* the handles a pass may ask the client cache for: the set-up guilds and the
\* channels their configs name
Handles ==
    LET setup == {i \in 1..Len(guild_configs) : guild_configs[i].v.setup_complete}
    IN UNION {{GuildHandle(guild_configs[i].k.g)}
              \cup {guild_configs[i].v.channel_id[1]}
              \cup {guild_configs[i].v.ctf_channels[c] :
                       c \in DOMAIN guild_configs[i].v.ctf_channels} : i \in setup}

\* what the client cache may be missing while a handler runs
UnresolvedChoices == {u \in SUBSET Handles : Cardinality(u) <= MaxUnresolved}

DeliveredKeys == Tenants \X AllKeys \X Kinds

\* the stores as a change leaves them count against MaxOps only when they differ
Spend ==
    used' = IF <<ctf_cache, guild_configs, sent_notifications, guild_ctf_status, files,
                 text_channels, pass>>'
               = <<ctf_cache, guild_configs, sent_notifications, guild_ctf_status, files,
                   text_channels, pass>>
            THEN used ELSE used + 1

CacheAB == <<[k |-> get_ctf_id(EvA), v |-> EvA], [k |-> get_ctf_id(EvB), v |-> EvB]>>

BothSetUp ==
    set_guild_channel_id(set_guild_channel_id(<<>>, 1, PrimaryChannel(1)),
                         2, PrimaryChannel(2))

\* what the process finds at start: no files (first start), or the files of an
\* earlier run in which both guilds were set up, the feed was fetched, and
\* guild 2 joined EvA (its channel exists since) and turned the 1h alert off,
\* and guild 1 skipped EvB
Worlds ==
    {[files |-> NoFiles, channels |-> {}],
     [files |-> save_all(
                    set_guild_setting(
                        register_ctf_channel(BothSetUp, 2, get_ctf_id(EvA),
                            EventChannel(2, sanitize_channel_name(EvA.title))),
                        2, "notification_1h", FALSE),
                    <<>>,
                    mark_ctf_skipped(mark_ctf_joined(<<>>, 2, get_ctf_id(EvA)),
                                     1, get_ctf_id(EvB)),
                    CacheAB),
      channels |-> {EventChannel(2, sanitize_channel_name(EvA.title))}]}

Did(op, g) == last' = [op |-> op, g |-> g]

\* the process after construction, started where w is what it finds
InitFrom(w) ==
    /\ ctf_cache = <<>>
    /\ guild_configs = <<>>
    /\ sent_notifications = <<>>
    /\ guild_ctf_status = <<>>
    /\ files = w.files
    /\ text_channels = {PrimaryChannel(g) : g \in Tenants} \cup w.channels
    /\ clock = 1
    /\ pass = [p \in Passes |-> IdlePass]
    /\ jobs = [started |-> FALSE, check_alive |-> FALSE, run |-> 1]
    /\ delivered = [t \in DeliveredKeys |-> 0]
    /\ used = 0
    /\ last = [op |-> "none", g |-> 0]

Init == \E w \in Worlds : InitFrom(w)

\* on_ready: load_all, then the three jobs are started (a later ready event
\* loads again and fails at api_fetch_task.start(), the job being already running)
on_ready ==
    /\ jobs.started => used < MaxOps
    /\ guild_configs' = IF files.configs = None THEN guild_configs
                        ELSE load_guild_configs(files.configs[1])
    /\ sent_notifications' = IF files.notifs = None THEN sent_notifications
                             ELSE load_sent_notifications(files.notifs[1])
    /\ guild_ctf_status' = IF files.status = None THEN guild_ctf_status
                           ELSE load_guild_ctf_status(files.status[1])
    /\ ctf_cache' = IF files.cache = None THEN ctf_cache
                    ELSE load_ctf_cache(files.cache[1])
    /\ jobs' = IF jobs.started THEN jobs
                ELSE [started |-> TRUE, check_alive |-> TRUE, run |-> jobs.run]
    /\ UNCHANGED <<files, text_channels, clock, pass, delivered>>
    /\ IF jobs.started THEN Spend ELSE UNCHANGED used
    /\ Did("on_ready", 0)

\* what requests.get / response.json() give fetch_and_cache_ctfs: status 200
\* with a list of events, or one of the failures (requests.get raises, a status
\* other than 200, a body response.json() cannot parse)
OkResponses == {[kind |-> "ok", events |-> f] : f \in FeedOptions}

FailedResponses == {[kind |-> k, events |-> <<>>] : k \in {"raises", "status", "body"}}

\* new_cache merged into the cache it should replace
NewCache_Merged(events) ==
    LET F[i \in 0..Len(events)] ==
          IF i = 0 THEN ctf_cache ELSE Put(F[i - 1], get_ctf_id(events[i]), events[i])
    IN F[Len(events)]

\* new_cache = {get_ctf_id(e): e for e in events}
NewCache(events) ==
    LET F[i \in 0..Len(events)] ==
          IF i = 0 THEN <<>> ELSE Put(F[i - 1], get_ctf_id(events[i]), events[i])
    IN F[Len(events)]

\* fetch_and_cache_ctfs with a failure emptying the cache
fetch_and_cache_ctfs_ClearsOnFailure(response, cache, fs) ==
    IF response.kind = "ok"
    THEN [ok |-> TRUE, cache |-> NewCache(response.events),
          files |-> [fs EXCEPT !.cache = Some(save_ctf_cache(NewCache(response.events)))]]
    ELSE [ok |-> FALSE, cache |-> <<>>, files |-> fs]

\* fetch_and_cache_ctfs: its return value, the cache and the files after it
fetch_and_cache_ctfs(response, cache, fs) ==
    IF response.kind = "ok"
    THEN [ok |-> TRUE, cache |-> NewCache(response.events),
          files |-> [fs EXCEPT !.cache = Some(save_ctf_cache(NewCache(response.events)))]]
    ELSE [ok |-> FALSE, cache |-> cache, files |-> fs]

\* api_fetch_task -> fetch_and_cache_ctfs, status 200: the cache is replaced and saved
api_fetch_task ==
    /\ jobs.started /\ used < MaxOps
    /\ \E response \in OkResponses :
         \E r \in {fetch_and_cache_ctfs(response, ctf_cache, files)} :
            /\ ctf_cache' = r.cache
            /\ files' = r.files
    /\ UNCHANGED <<guild_configs, sent_notifications, guild_ctf_status, text_channels,
                   clock, pass, jobs, delivered>>
    /\ Spend
    /\ Did("api_fetch_task", 0)

\* api_fetch_task -> fetch_and_cache_ctfs failing: logs and returns False
api_fetch_failed ==
    /\ jobs.started /\ used < MaxOps
    /\ \E response \in FailedResponses :
         \E r \in {fetch_and_cache_ctfs(response, ctf_cache, files)} :
            /\ ctf_cache' = r.cache
            /\ files' = r.files
    /\ used' = used + 1
    /\ UNCHANGED <<guild_configs, sent_notifications, guild_ctf_status, text_channels,
                   clock, pass, jobs, delivered>>
    /\ Did("api_fetch_failed", 0)

\* auto_save_task -> save_all
auto_save_task ==
    /\ jobs.started /\ used < MaxOps
    /\ files' = save_all(guild_configs, sent_notifications, guild_ctf_status, ctf_cache)
    /\ UNCHANGED <<ctf_cache, guild_configs, sent_notifications, guild_ctf_status,
                   text_channels, clock, pass, jobs, delivered>>
    /\ Spend
    /\ Did("auto_save_task", 0)

\* the writes that fail during one flush: none, or those of one dataset
FailChoices == {{}} \cup {{d} : d \in Datasets}

\* signal_handler -> shutdown: save_all, then "await bot.close()" ends bot.run
\* and with it the process, whose memory is gone; the next run starts from the
\* files. When save_all raises, the task of shutdown() ends with the
\* exception before bot.close() and the process goes on running.
shutdown(fail) ==
    /\ jobs.started /\ used < MaxOps
    /\ LET r == save_all_on(files, guild_configs, sent_notifications, guild_ctf_status,
                            ctf_cache, fail)
       IN /\ files' = r.files
          /\ IF r.raised
             THEN UNCHANGED <<ctf_cache, guild_configs, sent_notifications,
                              guild_ctf_status, pass, jobs>>
             ELSE /\ ctf_cache' = <<>>
                  /\ guild_configs' = <<>>
                  /\ sent_notifications' = <<>>
                  /\ guild_ctf_status' = <<>>
                  /\ pass' = [p \in Passes |-> IdlePass]
                  /\ jobs' = [started |-> FALSE, check_alive |-> FALSE,
                              run |-> jobs.run + 1]
    /\ UNCHANGED <<text_channels, clock, delivered>>
    /\ used' = used + 1
    /\ Did("shutdown", 0)

\* the wall clock advances to a later instant
Tick ==
    /\ \E c \in (clock + 1)..Len(TimePoints) : clock' = c
    /\ UNCHANGED <<ctf_cache, guild_configs, sent_notifications, guild_ctf_status, files,
                   text_channels, pass, jobs, delivered, used>>
    /\ UNCHANGED last

\* notification_check_task -> check_notification_triggers, run to its first await
notification_check_task ==
    /\ jobs.started /\ jobs.check_alive
    /\ pass["task"].pc = "idle"
    /\ \E r \in {check_notification_triggers(TimePoints[clock], sent_notifications,
                  guild_configs, ctf_cache, guild_ctf_status, u) :
                     u \in UnresolvedChoices} :
         /\ pass' = [pass EXCEPT !["task"] = r.p]
         /\ sent_notifications' = r.sn
         /\ guild_configs' = r.gc
    /\ UNCHANGED <<ctf_cache, guild_ctf_status, files, text_channels, clock, jobs,
                   delivered, used>>
    /\ UNCHANGED last

Sending(p) == pass[p].pc \in {"send_guild", "send_reminder"}

Bump(d, t) == [d EXCEPT ![t] = IF @ < MaxDelivered THEN @ + 1 ELSE @]

\* send_returns with the pass starting the enumeration of its tenant again on
\* the current cache
send_returns_RereadsCache(p) ==
    /\ Sending(p)
    /\ \E r \in {ScanEvents(pass[p].gid, ctf_cache, pass[p].guilds, pass[p].now,
                  mark_notification_sent(sent_notifications, pass[p].gid,
                                         pass[p].pend.cid, pass[p].pend.kind),
                  guild_configs, ctf_cache, guild_ctf_status, u) :
                     u \in UnresolvedChoices} :
         /\ pass' = [pass EXCEPT ![p] = r.p]
         /\ sent_notifications' = r.sn
         /\ guild_configs' = r.gc
    /\ delivered' = Bump(delivered, <<pass[p].gid, pass[p].pend.cid, pass[p].pend.kind>>)
    /\ UNCHANGED <<ctf_cache, guild_ctf_status, files, text_channels, clock, jobs, used>>
    /\ UNCHANGED last

\* "await channel.send(...)" returns in send_guild_notification or in
\* send_ctf_channel_reminder: the message is delivered, the pair is marked and
\* the pass runs on to its next await
send_returns(p) ==
    /\ Sending(p)
    /\ \E r \in {ScanEvents(pass[p].gid, pass[p].events, pass[p].guilds, pass[p].now,
                  mark_notification_sent(sent_notifications, pass[p].gid,
                                         pass[p].pend.cid, pass[p].pend.kind),
                  guild_configs, ctf_cache, guild_ctf_status, u) :
                     u \in UnresolvedChoices} :
         /\ pass' = [pass EXCEPT ![p] = r.p]
         /\ sent_notifications' = r.sn
         /\ guild_configs' = r.gc
    /\ delivered' = Bump(delivered, <<pass[p].gid, pass[p].pend.cid, pass[p].pend.kind>>)
    /\ UNCHANGED <<ctf_cache, guild_ctf_status, files, text_channels, clock, jobs, used>>
    /\ UNCHANGED last

\* a failed send that leaves the pair marked, as marking before sending would
send_raises_Marked(p) ==
    /\ Sending(p)
    /\ pass' = [pass EXCEPT ![p] = IdlePass]
    /\ sent_notifications' = mark_notification_sent(sent_notifications, pass[p].gid,
                                                    pass[p].pend.cid, pass[p].pend.kind)
    /\ \E alive \in BOOLEAN :
         jobs' = IF p = "task" THEN [jobs EXCEPT !.check_alive = alive] ELSE jobs
    /\ UNCHANGED <<ctf_cache, guild_configs, guild_ctf_status, files,
                   text_channels, clock, delivered, used>>
    /\ UNCHANGED last

\* "await channel.send(...)" raises: nothing is caught in the pass, so the
\* exception ends it; tasks.loop retries after a connection error and stops
\* the job after any other exception
send_raises(p) ==
    /\ Sending(p)
    /\ pass' = [pass EXCEPT ![p] = IdlePass]
    /\ \E alive \in BOOLEAN :
         jobs' = IF p = "task" THEN [jobs EXCEPT !.check_alive = alive] ELSE jobs
    /\ UNCHANGED <<ctf_cache, guild_configs, sent_notifications, guild_ctf_status, files,
                   text_channels, clock, delivered, used>>
    /\ UNCHANGED last

\* slash_setup_bot up to "await interaction.response.send_message"
slash_setup_bot(g) ==
    /\ jobs.started /\ used < MaxOps
    /\ pass["setup"].pc = "idle"
    /\ guild_configs' = set_guild_channel_id(guild_configs, g, PrimaryChannel(g))
    /\ pass' = [pass EXCEPT !["setup"] = [IdlePass EXCEPT !.pc = "reply", !.gid = g]]
    /\ UNCHANGED <<ctf_cache, sent_notifications, guild_ctf_status, files, text_channels,
                   clock, jobs, delivered>>
    /\ Spend
    /\ Did("slash_setup_bot", g)

\* slash_setup_bot after the reply was sent: fetch_and_cache_ctfs, whatever it
\* returns, then check_notification_triggers to its first await
setup_continues ==
    /\ pass["setup"].pc = "reply"
    /\ \E response \in OkResponses \cup FailedResponses :
         \E fetched \in {fetch_and_cache_ctfs(response, ctf_cache, files)} :
         \E r \in {check_notification_triggers(TimePoints[clock], sent_notifications,
                       guild_configs, fetched.cache, guild_ctf_status, u) :
                          u \in UnresolvedChoices} :
            /\ ctf_cache' = fetched.cache
            /\ files' = fetched.files
            /\ pass' = [pass EXCEPT !["setup"] = r.p]
            /\ sent_notifications' = r.sn
            /\ guild_configs' = r.gc
    /\ UNCHANGED <<guild_ctf_status, text_channels, clock, jobs, delivered, used>>
    /\ UNCHANGED last

\* slash_setup_bot: the reply raises and ends the handler
setup_reply_raises ==
    /\ pass["setup"].pc = "reply"
    /\ pass' = [pass EXCEPT !["setup"] = IdlePass]
    /\ UNCHANGED <<ctf_cache, guild_configs, sent_notifications, guild_ctf_status, files,
                   text_channels, clock, jobs, delivered, used>>
    /\ UNCHANGED last

\* user_has_ctf_permissions for a member without the administrator permission:
\* admin_roles is read through get_guild_setting and is never set, so the answer
\* is False; the store after the call
DeniedPermission(gc, gid) == get_guild_config(gc, gid)

\* a join that, finding the channel, creates and binds a second one
join_ctf_SecondChannel(g, cid, ok) ==
    /\ jobs.started /\ used < MaxOps
    /\ Has(ctf_cache, cid)
    /\ LET name == sanitize_channel_name(Get(ctf_cache, cid).title)
           channel == IF EventChannel(g, name) \in text_channels
                      THEN EventChannel(g, name \o "-2") ELSE EventChannel(g, name)
       IN IF ok
          THEN /\ text_channels' = text_channels \cup {channel}
               /\ guild_configs' = register_ctf_channel(guild_configs, g, cid, channel)
               /\ guild_ctf_status' = mark_ctf_joined(guild_ctf_status, g, cid)
          ELSE UNCHANGED <<guild_configs, text_channels, guild_ctf_status>>
    /\ UNCHANGED <<ctf_cache, sent_notifications, files, clock, pass, jobs, delivered>>
    /\ Spend
    /\ Did("join_ctf", g)

\* CTFActionButtons.join_ctf pressed by an administrator for a cached event;
\* ok is whether the platform call of the branch taken (followup.send when the
\* channel exists, create_text_channel otherwise) succeeds
join_ctf(g, cid, ok) ==
    /\ jobs.started /\ used < MaxOps
    /\ Has(ctf_cache, cid)
    /\ LET name == sanitize_channel_name(Get(ctf_cache, cid).title)
           channel == EventChannel(g, name)
       IN IF channel \in text_channels
          THEN /\ guild_ctf_status' = IF ok THEN mark_ctf_joined(guild_ctf_status, g, cid)
                                      ELSE guild_ctf_status
               /\ UNCHANGED <<guild_configs, text_channels>>
          ELSE IF ok
          THEN /\ text_channels' = text_channels \cup {channel}
               /\ guild_configs' = register_ctf_channel(guild_configs, g, cid, channel)
               /\ guild_ctf_status' = mark_ctf_joined(guild_ctf_status, g, cid)
          ELSE UNCHANGED <<guild_configs, text_channels, guild_ctf_status>>
    /\ UNCHANGED <<ctf_cache, sent_notifications, files, clock, pass, jobs, delivered>>
    /\ Spend
    /\ Did("join_ctf", g)

\* skip_ctf writing the skipped status over whatever the pair holds
skip_ctf_Overwrites(g, cid) ==
    /\ jobs.started /\ used < MaxOps
    /\ guild_ctf_status' = SetStatus(guild_ctf_status, g, cid, "skipped")
    /\ UNCHANGED <<ctf_cache, guild_configs, sent_notifications, files, text_channels,
                   clock, pass, jobs, delivered>>
    /\ Spend
    /\ Did("skip_ctf", g)

\* CTFActionButtons.skip_ctf pressed by an administrator
skip_ctf(g, cid) ==
    /\ jobs.started /\ used < MaxOps
    /\ guild_ctf_status' = mark_ctf_skipped(guild_ctf_status, g, cid)
    /\ UNCHANGED <<ctf_cache, guild_configs, sent_notifications, files, text_channels,
                   clock, pass, jobs, delivered>>
    /\ Spend
    /\ Did("skip_ctf", g)

\* join_ctf (for a cached event) or skip_ctf pressed by a member without permission
button_denied(g) ==
    /\ jobs.started /\ used < MaxOps
    /\ guild_configs' = DeniedPermission(guild_configs, g)
    /\ UNCHANGED <<ctf_cache, sent_notifications, guild_ctf_status, files, text_channels,
                   clock, pass, jobs, delivered>>
    /\ Spend
    /\ Did("button_denied", g)

\* slash_bot_settings with n24h and n1h each None or a boolean
slash_bot_settings(g, n24h, n1h) ==
    /\ jobs.started /\ used < MaxOps
    /\ n24h /= None \/ n1h /= None
    /\ LET gc1 == IF n24h /= None
                  THEN set_guild_setting(guild_configs, g, "notification_24h", n24h[1])
                  ELSE guild_configs
       IN guild_configs' = IF n1h /= None
                           THEN set_guild_setting(gc1, g, "notification_1h", n1h[1])
                           ELSE gc1
    /\ UNCHANGED <<ctf_cache, sent_notifications, guild_ctf_status, files, text_channels,
                   clock, pass, jobs, delivered>>
    /\ Spend
    /\ Did("slash_bot_settings", g)

\* slash_reset_notifications also dropping the participation store
slash_reset_notifications_DropsStatus(g) ==
    /\ jobs.started /\ used < MaxOps
    /\ sent_notifications' =
         Put(sent_notifications, py_str(IntKey(g)), [ty |-> "list", m |-> [k \in Kinds |-> {}]])
    /\ delivered' = [t \in DeliveredKeys |-> IF t[1] = g THEN 0 ELSE delivered[t]]
    /\ guild_ctf_status' = <<>>
    /\ UNCHANGED <<ctf_cache, guild_configs, files, text_channels, clock, pass, jobs>>
    /\ Spend
    /\ Did("slash_reset_notifications", g)

\* slash_reset_notifications: data_manager.sent_notifications[str(gid)] = {...: []}
slash_reset_notifications(g) ==
    /\ jobs.started /\ used < MaxOps
    /\ sent_notifications' =
         Put(sent_notifications, py_str(IntKey(g)), [ty |-> "list", m |-> [k \in Kinds |-> {}]])
    /\ delivered' = [t \in DeliveredKeys |-> IF t[1] = g THEN 0 ELSE delivered[t]]
    /\ UNCHANGED <<ctf_cache, guild_configs, guild_ctf_status, files, text_channels,
                   clock, pass, jobs>>
    /\ Spend
    /\ Did("slash_reset_notifications", g)

\* the options given to slash_bot_settings: <<n24h, n1h>>, one of them set
SettingInputs ==
    {<<Some(b), None>> : b \in BOOLEAN} \cup {<<None, Some(b)>> : b \in BOOLEAN}

Next ==
    \/ on_ready
    \/ api_fetch_task
    \/ api_fetch_failed
    \/ auto_save_task
    \/ \E fail \in FailChoices : shutdown(fail)
    \/ Tick
    \/ notification_check_task
    \/ \E p \in Passes : send_returns(p)
    \/ \E p \in Passes : send_raises(p)
    \/ \E g \in Tenants : slash_setup_bot(g)
    \/ setup_continues
    \/ setup_reply_raises
    \/ \E g \in CmdTenants, e \in JoinEvents, ok \in BOOLEAN :
          join_ctf(g, get_ctf_id(e), ok)
    \/ \E g \in Tenants, e \in ButtonEvents : skip_ctf(g, get_ctf_id(e))
    \/ \E g \in CmdTenants : button_denied(g)
    \/ \E g \in CmdTenants, o \in SettingInputs : slash_bot_settings(g, o[1], o[2])
    \/ \E g \in CmdTenants : slash_reset_notifications(g)

Spec == Init /\ [][Next]_vars

\* the process started on the files of an earlier run in which guild 1 was set
\* up with the 1h alert off and the feed held two events with a parseable
\* start, EvC before EvA
TwoEventWorld ==
    [files |-> save_all(set_guild_setting(
                            set_guild_channel_id(<<>>, 1, PrimaryChannel(1)),
                            1, "notification_1h", FALSE),
                        <<>>, <<>>, NewCache(<<EvC, EvA>>)),
     channels |-> {}]

TwoEventInit == InitFrom(TwoEventWorld)

\* the steps of the evaluation passes and of what runs between their awaits
\* without a button or a settings command: ready events, refreshes, the clock
\* and the setup command with its own pass
PassNext ==
    \/ on_ready
    \/ api_fetch_task
    \/ api_fetch_failed
    \/ Tick
    \/ notification_check_task
    \/ \E p \in Passes : send_returns(p)
    \/ \E p \in Passes : send_raises(p)
    \/ \E g \in Tenants : slash_setup_bot(g)
    \/ setup_continues
    \/ setup_reply_raises

TwoEventSpec == TwoEventInit /\ [][PassNext]_vars

\* the process started on the files of an earlier run in which guild 2 was set
\* up, the feed was fetched, and a member of guild 1 pressed a button without
\* permission: guild 1 has a config created with the defaults
LazyConfigWorld ==
    [files |-> save_all(get_guild_config(
                            set_guild_channel_id(<<>>, 2, PrimaryChannel(2)), 1),
                        <<>>, <<>>, CacheAB),
     channels |-> {}]

LazyConfigInit == InitFrom(LazyConfigWorld)

LazyConfigSpec == LazyConfigInit /\ [][PassNext]_vars

\* the process started on the files of an earlier run in which both guilds
\* were set up, the feed was fetched and guild 1 joined EvA, whose channel
\* exists since; guild 2 has a text channel of the same name that no join
\* created (the channel of an earlier event of that title)
JoinWorld ==
    [files |-> save_all(register_ctf_channel(BothSetUp, 1, get_ctf_id(EvA),
                            EventChannel(1, sanitize_channel_name(EvA.title))),
                        <<>>,
                        mark_ctf_joined(<<>>, 1, get_ctf_id(EvA)),
                        CacheAB),
     channels |-> {EventChannel(g, sanitize_channel_name(EvA.title)) : g \in Tenants}]

JoinInit == InitFrom(JoinWorld)

\* the steps of the buttons and of the periodic pass
JoinNext ==
    \/ on_ready
    \/ Tick
    \/ notification_check_task
    \/ \E p \in Passes : send_returns(p)
    \/ \E p \in Passes : send_raises(p)
    \/ \E g \in Tenants, e \in JoinEvents, ok \in BOOLEAN :
          join_ctf(g, get_ctf_id(e), ok)
    \/ \E g \in Tenants, e \in ButtonEvents : skip_ctf(g, get_ctf_id(e))

JoinSpec == JoinInit /\ [][JoinNext]_vars

\* the running process of TwoEventWorld after guild 2 ran the setup command and
\* before the next flush: guild 2 is set up in memory and absent from
\* guild_configs.json
UnflushedSetupInit ==
    /\ files = TwoEventWorld.files
    /\ guild_configs = set_guild_channel_id(load_guild_configs(files.configs[1]),
                                             2, PrimaryChannel(2))
    /\ sent_notifications = load_sent_notifications(files.notifs[1])
    /\ guild_ctf_status = load_guild_ctf_status(files.status[1])
    /\ ctf_cache = load_ctf_cache(files.cache[1])
    /\ text_channels = {PrimaryChannel(g) : g \in Tenants} \cup TwoEventWorld.channels
    /\ clock = 1
    /\ pass = [p \in Passes |-> IdlePass]
    /\ jobs = [started |-> TRUE, check_alive |-> TRUE, run |-> 1]
    /\ delivered = [t \in DeliveredKeys |-> 0]
    /\ used = 0
    /\ last = [op |-> "slash_setup_bot", g |-> 2]

UnflushedSetupSpec == UnflushedSetupInit /\ [][PassNext]_vars

\* ------------------------------------------------------------------ properties
\* kind type is in the set the store keeps for (gid, ctf_id) under the integer
\* key, the entry has_notification_been_sent reads
Recorded(sn, gid, ctf_id, type) ==
    Has(sn, IntKey(gid)) /\ ctf_id \in Get(sn, IntKey(gid)).m[type]

IsSent(gid, ctf_id, type) == Recorded(sent_notifications, gid, ctf_id, type)

\* the decision one iteration of the pass takes now for cache entry i of guild gid
Decision(gid, i, now, u) ==
    EvalPair(gid, ctf_cache[i].k, ctf_cache[i].v, now,
             sent_notifications, guild_configs, guild_ctf_status, u)

\* the guilds the pass iterates over
SetupTenants ==
    LET ids == get_setup_guilds(guild_configs)
    IN {g \in Tenants : \E j \in 1..Len(ids) : ids[j] = g}

\* C1: between two resets of a tenant, each (tenant, event, kind) message is
\* delivered to the platform at most once
C1_DeliveredAtMostOnce == \A t \in DeliveredKeys : delivered[t] <= 1

\* C2: once a pass has emitted kind K for (T, E) - its send routine has come
\* back, with or without an exception - an evaluation of the same pair at the
\* same instant, with the state as that step left it, emits nothing for it
C2_ReRunEmitsNothing ==
    [][\A p \in Passes :
          (Sending(p) /\ pass'[p] /= pass[p] /\ Has(ctf_cache', pass[p].pend.cid))
          => EvalPair(pass[p].gid, pass[p].pend.cid, Get(ctf_cache', pass[p].pend.cid),
                      pass[p].now, sent_notifications', guild_configs',
                      guild_ctf_status', {}).kind /= pass[p].pend.kind]_vars

\* the periodic job has died on a failed delivery inside the 24h window and a
\* pair of a set-up guild would be given the 24h alert again
C2_Witness ==
    /\ jobs.started /\ ~jobs.check_alive
    /\ In24hWindow(EvA.start.ts - TimePoints[clock])
    /\ \E g \in SetupTenants, i \in 1..Len(ctf_cache) :
          Decision(g, i, TimePoints[clock], {}).kind = "24h"

\* the part of C2 that the sent-tests of the pass give: while kind K is recorded
\* as sent for (T, E), no evaluation of the pair, at any instant, decides K
C2_NoDecisionWhileRecorded ==
    \A g \in Tenants, i \in 1..Len(ctf_cache), now \in Probes, k \in Kinds :
        IsSent(g, ctf_cache[i].k, k) => Decision(g, i, now, {}).kind /= k

\* K is recorded for (1, a_1) after exactly one delivery and both passes, read at
\* an instant of K's window, are already past that pair
C2_RecordedAndPassedOver ==
    /\ IsSent(1, get_ctf_id(EvA), "1h")
    /\ delivered[<<1, get_ctf_id(EvA), "1h">>] = 1
    /\ \A p \in Passes : /\ Sending(p) /\ pass[p].gid = 2
                         /\ In1hWindow(EvA.start.ts - pass[p].now)

\* two deliveries of the same (tenant, event, kind) with no reset in between
C1_Witness == \E t \in DeliveredKeys : delivered[t] = 2

\* the 24h alert of (1, a_1) is at the platform and 24h is not recorded for it
C3_Witness ==
    \E p \in Passes :
        /\ pass[p].pc = "send_guild" /\ pass[p].gid = 1
        /\ pass[p].pend.kind = "24h"
        /\ ~IsSent(1, pass[p].pend.cid, "24h")

\* C3: a message is handed to the platform only after its sent-mark is recorded
C3_MarkedBeforeHandOff ==
    \A p \in Passes :
        Sending(p) => IsSent(pass[p].gid, pass[p].pend.cid, pass[p].pend.kind)

\* C4: for a set-up tenant and an event with a parseable start that is neither
\* joined nor skipped, the pass decides the 24h alert exactly when
\* 23 h <= time to start <= 25 h (both ends included), the 24h setting is on
\* and 24h is not recorded as sent
C4_Window24h ==
    \A g \in SetupTenants, i \in 1..Len(ctf_cache), now \in Probes :
        LET cid == ctf_cache[i].k
            secs == ctf_cache[i].v.start.ts - now
        IN (ctf_cache[i].v.start.ok /\ should_send_notification(guild_ctf_status, g, cid))
           => ((Decision(g, i, now, {}).kind = "24h")
               <=> (/\ 23 * 3600 <= secs /\ secs <= 25 * 3600
                    /\ Get(guild_configs, IntKey(g)).settings["notification_24h"]
                    /\ ~IsSent(g, cid, "24h")))

\* a pass read exactly 25.0 h before the start is handing over the 24h alert
C4_Witness ==
    \E p \in Passes :
        /\ pass[p].pc = "send_guild" /\ pass[p].pend.kind = "24h"
        /\ pass[p].pend.cid = get_ctf_id(EvA)
        /\ EvA.start.ts - pass[p].now = 25 * 3600

\* C5: under the same conditions the pass decides the 1h alert exactly when
\* 0 h < time to start <= 1.5 h (0 excluded, 1.5 included), the 1h setting is
\* on and 1h is not recorded as sent
C5_Window1h ==
    \A g \in SetupTenants, i \in 1..Len(ctf_cache), now \in Probes :
        LET cid == ctf_cache[i].k
            secs == ctf_cache[i].v.start.ts - now
        IN (ctf_cache[i].v.start.ok /\ should_send_notification(guild_ctf_status, g, cid))
           => ((Decision(g, i, now, {}).kind = "1h")
               <=> (/\ 0 < secs /\ secs <= 5400
                    /\ Get(guild_configs, IntKey(g)).settings["notification_1h"]
                    /\ ~IsSent(g, cid, "1h")))

\* a pass read exactly 1.5 h before the start is handing over the 1h alert
C5_Witness ==
    \E p \in Passes :
        /\ pass[p].pc = "send_guild" /\ pass[p].pend.kind = "1h"
        /\ pass[p].pend.cid = get_ctf_id(EvA)
        /\ EvA.start.ts - pass[p].now = 5400

\* C6: for a set-up tenant, a joined pair inside the 1h window with channel_1h
\* not recorded and a channel bound to the event gets the channel_1h reminder,
\* addressed to the bound channel, whatever the 24h/1h settings and whatever
\* 24h or 1h marks exist
C6_JoinedReminder ==
    \A g \in SetupTenants, i \in 1..Len(ctf_cache), now \in Probes :
        LET cid == ctf_cache[i].k
            secs == ctf_cache[i].v.start.ts - now
            bound == Get(guild_configs, IntKey(g)).ctf_channels
        IN (/\ ctf_cache[i].v.start.ok
            /\ StatusOf(guild_ctf_status, g, cid) = "joined"
            /\ 0 < secs /\ secs <= 5400
            /\ ~IsSent(g, cid, "channel_1h")
            /\ cid \in DOMAIN bound)
           => /\ Decision(g, i, now, {}).kind = "channel_1h"
              /\ Decision(g, i, now, {}).chan = Some(bound[cid])
              /\ Decision(g, i, now, {bound[cid]}).kind = "channel_1h"
              /\ Decision(g, i, now, {bound[cid]}).chan = None

\* the reminder of the joined pair (2, a_1) is being handed to its bound channel
\* although guild 2 has the 1h setting off
C6_Witness ==
    /\ \E p \in Passes : /\ pass[p].pc = "send_reminder" /\ pass[p].gid = 2
                         /\ pass[p].pend.cid = get_ctf_id(EvA)
                         /\ pass[p].pend.chan = Some(EventChannel(2, "a"))
    /\ StatusOf(guild_ctf_status, 2, get_ctf_id(EvA)) = "joined"
    /\ Has(guild_configs, IntKey(2))
    /\ ~Get(guild_configs, IntKey(2)).settings["notification_1h"]

\* C7: right after a reset command of tenant T no kind is reported as sent for
\* any event of T
C7_ResetClearsMarks ==
    [][\A g \in Tenants :
          slash_reset_notifications(g)
          => \A cid \in AllKeys, k \in Kinds :
                ~has_notification_been_sent(sent_notifications', g, cid, k)]_vars

\* C8: a reset command leaves the participation statuses, the tenant
\* configurations (channel bindings included) and the cached events untouched
C8_ResetFrame ==
    [][\A g \in Tenants :
          slash_reset_notifications(g)
          => UNCHANGED <<guild_ctf_status, guild_configs, ctf_cache>>]_vars

\* guild 1 has just run the reset command while a joined pair, a channel
\* binding and cached events exist
C8_Witness ==
    /\ last = [op |-> "slash_reset_notifications", g |-> 1]
    /\ Has(sent_notifications, StrKey(1))
    /\ StatusOf(guild_ctf_status, 2, get_ctf_id(EvA)) = "joined"
    /\ get_ctf_channel(guild_configs, 2, get_ctf_id(EvA)) /= None
    /\ Len(ctf_cache) > 0

\* C9: while the process runs, a recorded (tenant, event, kind) mark disappears
\* only in a reset command of that tenant; in particular a repeated ready event
\* keeps it
C9_MarksOnlyRemovedByReset ==
    [][\A g \in Tenants, cid \in AllKeys, k \in Kinds :
          (/\ jobs'.run = jobs.run
           /\ IsSent(g, cid, k) /\ ~Recorded(sent_notifications', g, cid, k))
          => slash_reset_notifications(g)]_vars

C10_WitnessJoinOnSkipped ==
    /\ last = [op |-> "join_ctf", g |-> 1]
    /\ get_ctf_channel(guild_configs, 1, get_ctf_id(EvB)) /= None
    /\ StatusOf(guild_ctf_status, 1, get_ctf_id(EvB)) = "skipped"

\* the keys a dict enumerates
KeySet(d) == {d[i].k : i \in 1..Len(d)}

\* C11: a successful refresh leaves in the cache exactly the keys of the fetched
\* events, each with its fetched event, whatever the cache held before, and
\* the refresh step changes no notification record, participation record or
\* tenant config (channel bindings included)
C11_RefreshReplacesCache ==
    [][api_fetch_task
       => /\ \A response \in OkResponses :
               LET r == fetch_and_cache_ctfs(response, ctf_cache, files)
                   fetched == {response.events[i] : i \in 1..Len(response.events)}
               IN /\ r.ok
                  /\ KeySet(r.cache) = {get_ctf_id(e) : e \in fetched}
                  /\ \A e \in fetched : Get(r.cache, get_ctf_id(e)) = e
          /\ \E response \in OkResponses :
               ctf_cache' = fetch_and_cache_ctfs(response, ctf_cache, files).cache
          /\ UNCHANGED <<sent_notifications, guild_ctf_status, guild_configs>>]_vars

\* a refresh has just dropped a_1 from the cache while its 24h mark in guild 1
\* and its joined status and channel binding in guild 2 are still there
C11_Witness ==
    /\ last.op = "api_fetch_task"
    /\ ~Has(ctf_cache, get_ctf_id(EvA))
    /\ IsSent(1, get_ctf_id(EvA), "24h")
    /\ StatusOf(guild_ctf_status, 2, get_ctf_id(EvA)) = "joined"
    /\ get_ctf_channel(guild_configs, 2, get_ctf_id(EvA)) /= None

\* C12: a failed fetch (exception, status other than 200, unparseable body)
\* returns False and leaves the in-memory cache and the cache file as they were
C12_FailedFetchKeepsCache ==
    [][/\ api_fetch_failed => UNCHANGED <<ctf_cache, files>>
       /\ \A response \in FailedResponses :
             fetch_and_cache_ctfs(response, ctf_cache, files)
               = [ok |-> FALSE, cache |-> ctf_cache, files |-> files]]_vars

\* a fetch has just failed while a cache of two events and its file exist
C12_Witness ==
    /\ last.op = "api_fetch_failed"
    /\ Len(ctf_cache) = 2
    /\ files.cache /= None

\* two dicts with the same keys (key type included) and the same values
SameDict(a, b) == KeySet(a) = KeySet(b) /\ \A k \in KeySet(a) : Get(a, k) = Get(b, k)

\* C13: in every reachable state, save followed by load gives back each of the
\* four stores: same tenant keys of the same type, same kinds, same members
C13_RoundTrip ==
    /\ SameDict(load_guild_configs(save_guild_configs(guild_configs)), guild_configs)
    /\ SameDict(load_sent_notifications(save_sent_notifications(sent_notifications)),
                sent_notifications)
    /\ load_guild_ctf_status(save_guild_ctf_status(guild_ctf_status)) = guild_ctf_status
    /\ SameDict(load_ctf_cache(save_ctf_cache(ctf_cache)), ctf_cache)

\* the reset command has run in guild 1, whose 24h mark of a_1 is recorded
C13_Witness ==
    /\ Has(sent_notifications, StrKey(1))
    /\ IsSent(1, get_ctf_id(EvA), "24h")

\* the part of C13 that holds: the round trip gives back every store as long as
\* no reset command has put a string key into the notification record
C13_RoundTripWithoutReset ==
    (\A g \in Tenants : ~Has(sent_notifications, StrKey(g))) => C13_RoundTrip

\* s is what is left of d after some of its first entries
IsSuffix(s, d) == \E n \in 0..Len(d) : s = SubSeq(d, n + 1, Len(d))

\* C14: a pass that goes from one delivery to the next inside the enumeration
\* of one tenant takes the next pair from the entries its enumeration had left,
\* and a refresh changes neither those entries nor the position of any pass:
\* the enumeration runs over one snapshot whatever the cache becomes meanwhile
C14_OneSnapshotPerTenant ==
    [][/\ \A p \in Passes :
            (/\ Sending(p) /\ pass'[p] /= pass[p] /\ pass'[p].pc /= "idle"
             /\ pass'[p].gid = pass[p].gid /\ pass'[p].guilds = pass[p].guilds)
            => /\ IsSuffix(pass'[p].events, pass[p].events)
               /\ Len(pass'[p].events) < Len(pass[p].events)
               /\ pass'[p].pend.cid
                    = pass[p].events[Len(pass[p].events) - Len(pass'[p].events)].k
       /\ (api_fetch_task \/ api_fetch_failed) => UNCHANGED pass]_vars

\* a pass that delivered the alert of c_3 in guild 1 is delivering the alert of
\* a_1, taken from the snapshot it enumerates, after a refresh dropped a_1 from
\* the cache
C14_Witness ==
    \E p \in Passes :
        /\ pass[p].pc = "send_guild" /\ pass[p].gid = 1
        /\ pass[p].pend.cid = get_ctf_id(EvA)
        /\ delivered[<<1, get_ctf_id(EvC), "24h">>] = 1
        /\ last.op = "api_fetch_task"
        /\ ~Has(ctf_cache, get_ctf_id(EvA))

\* where the enumeration a suspended pass has left leads when nothing is
\* marked for the pending pair and the client resolves every handle
PassGoesOn(p) ==
    ScanEvents(pass[p].gid, pass[p].events, pass[p].guilds, pass[p].now,
               sent_notifications, guild_configs, ctf_cache, guild_ctf_status, {}).p

\* C15: whenever a delivery is pending, its failure lets the pass go on with
\* the entries and tenants it had left, and never stops the periodic job
C15_FailureDoesNotAbort ==
    \A p \in Passes :
        Sending(p)
        => /\ ENABLED (send_raises(p) /\ pass'[p] = PassGoesOn(p))
           /\ ~ENABLED (send_raises(p) /\ jobs'.check_alive /= jobs.check_alive)

\* the periodic job has stopped on a failed delivery in guild 1 and its pass
\* never reached guild 2, whose joined pair is due its reminder
C15_Witness ==
    /\ jobs.started /\ ~jobs.check_alive
    /\ pass["task"] = IdlePass
    /\ Has(ctf_cache, get_ctf_id(EvA))
    /\ 2 \in SetupTenants
    /\ Decision(2, Idx(ctf_cache, get_ctf_id(EvA)), TimePoints[clock], {}).kind = "channel_1h"

\* the first half of C15 alone: the pass can go on after a failed delivery
C15_PassGoesOnAfterFailure ==
    \A p \in Passes :
        Sending(p) => ENABLED (send_raises(p) /\ pass'[p] = PassGoesOn(p))

\* the second half of C15 alone: a failed delivery never stops the periodic job
C15_JobSurvivesFailure ==
    \A p \in Passes :
        Sending(p) => ~ENABLED (send_raises(p) /\ jobs'.check_alive /= jobs.check_alive)

\* C16: a shutdown writes every dataset whose write does not fail, whichever
\* of the other writes fail
C16_FlushAttemptsEveryDataset ==
    [][\A fail \in FailChoices :
          shutdown(fail)
          => \A d \in Datasets \ fail :
                files'[d] = save_all(guild_configs, sent_notifications,
                                     guild_ctf_status, ctf_cache)[d]]_vars

\* a shutdown ended in save_all and left the notification file without a mark
\* the memory holds
C16_Witness ==
    /\ last.op = "shutdown" /\ jobs.started
    /\ \E t \in DeliveredKeys : IsSent(t[1], t[2], t[3])
    /\ files.notifs /= Some(save_sent_notifications(sent_notifications))

\* kind type is in the array sent_notifications.json holds for (gid, ctf_id)
Flushed(gid, ctf_id, type) ==
    /\ files.notifs /= None
    /\ Has(files.notifs[1], StrKey(gid))
    /\ ctf_id \in Get(files.notifs[1], StrKey(gid)).m[type]

\* C17: once the process has loaded its state, a (tenant, event, kind) that the
\* notification file holds is recorded as sent in memory, and no evaluation of
\* the pair, at any instant, decides that kind
C17_NoDoubleFireAcrossRestart ==
    \A g \in Tenants, i \in 1..Len(ctf_cache), k \in Kinds :
        (jobs.started /\ Flushed(g, ctf_cache[i].k, k))
        => /\ IsSent(g, ctf_cache[i].k, k)
           /\ \A now \in Probes : Decision(g, i, now, {}).kind /= k

\* the second run of the process has loaded the mark of the 24h alert that the
\* first run delivered for (1, a_1) and flushed, and the pair is still in the
\* window: without the mark the pass would send the alert again
C17_Witness ==
    /\ jobs.run = 2 /\ jobs.started /\ jobs.check_alive
    /\ pass["task"] = IdlePass
    /\ delivered[<<1, get_ctf_id(EvA), "24h">>] = 1
    /\ Flushed(1, get_ctf_id(EvA), "24h")
    /\ Has(ctf_cache, get_ctf_id(EvA))
    /\ EvalPair(1, get_ctf_id(EvA), EvA, TimePoints[clock], <<>>, guild_configs,
                guild_ctf_status, {}).kind = "24h"

\* the tenants a pass is at or has still to go through
PassTenants(ps, p) ==
    ({ps[p].gid} \cup {ps[p].guilds[j] : j \in 1..Len(ps[p].guilds)}) \cap Tenants

\* the setup-complete flag of the tenant's config is set
FlagSet(g) == Has(guild_configs, IntKey(g)) /\ Get(guild_configs, IntKey(g)).setup_complete

C19_JoinedSkippedSuppressed ==
    \A g \in Tenants, i \in 1..Len(ctf_cache), now \in Probes :
        StatusOf(guild_ctf_status, g, ctf_cache[i].k) \in {"joined", "skipped"}
        => Decision(g, i, now, {}).kind \notin {"24h", "1h"}

\* the periodic pass delivered the 24h alert of a_1 to guild 1 and went through
\* guild 2, which has the 24h alert on and joined a_1: nothing was handed over
\* for guild 2
C19_Witness ==
    /\ delivered[<<1, get_ctf_id(EvA), "24h">>] = 1
    /\ pass["task"] = IdlePass /\ pass["setup"] = IdlePass
    /\ jobs.started /\ jobs.run = 1
    /\ In24hWindow(EvA.start.ts - TimePoints[clock])
    /\ Has(ctf_cache, get_ctf_id(EvA))
    /\ StatusOf(guild_ctf_status, 2, get_ctf_id(EvA)) = "joined"
    /\ 2 \in SetupTenants
    /\ get_guild_setting(guild_configs, 2, "notification_24h")
    /\ ~IsSent(2, get_ctf_id(EvA), "24h")
    /\ delivered[<<2, get_ctf_id(EvA), "24h">>] = 0

\* guild 1 pressed skip on a_1 inside the 24h window with the 24h alert on and
\* unsent
C19_WitnessSkipped ==
    /\ last = [op |-> "skip_ctf", g |-> 1]
    /\ StatusOf(guild_ctf_status, 1, get_ctf_id(EvA)) = "skipped"
    /\ In24hWindow(EvA.start.ts - TimePoints[clock])
    /\ 1 \in SetupTenants
    /\ get_guild_setting(guild_configs, 1, "notification_24h")
    /\ ~IsSent(1, get_ctf_id(EvA), "24h")

\* what a pass hands over at its suspension
HandedOver(p) == [pc |-> p.pc, gid |-> p.gid, pend |-> p.pend]

\* the pass started now over the set-up guilds other than g, every handle resolved
PassWithout(g, now) ==
    LET Other(x) == x /= g
    IN ScanGuilds(SelectSeq(get_setup_guilds(guild_configs), Other), now,
                  sent_notifications, guild_configs, ctf_cache, guild_ctf_status, {})

\* the pass started now when the client resolves every handle but those in u
PassMissing(u, now) ==
    check_notification_triggers(now, sent_notifications, guild_configs, ctf_cache,
                                guild_ctf_status, u)

\* C20: a pass started now while the client cannot resolve the guild or the
\* notification channel of a set-up tenant hands over no 24h or 1h alert for
\* that tenant, and unless it stops at a reminder of that tenant it hands over
\* exactly what the pass over the other set-up tenants hands over
C20_UnresolvableTenantSkipped ==
    \A g \in SetupTenants :
        \A h \in {GuildHandle(g)}
                  \cup {c[1] : c \in {get_guild_channel_id(guild_configs, g)} \ {None}} :
            LET r == PassMissing({h}, TimePoints[clock])
            IN /\ r.p.pc /= "send_guild" \/ r.p.gid /= g
               /\ r.p.gid /= g
                  => HandedOver(r.p) = HandedOver(PassWithout(g, TimePoints[clock]).p)

\* the periodic pass found the guild or the channel of guild 1 unresolvable: it
\* is handing the reminder of guild 2 over while the 1h alert of guild 1 is
\* due, unsent and undelivered
C20_Witness ==
    /\ pass["task"].pc = "send_reminder" /\ pass["task"].gid = 2
    /\ pass["setup"] = IdlePass
    /\ last.op = "on_ready" /\ used = 0
    /\ 1 \in SetupTenants
    /\ Has(ctf_cache, get_ctf_id(EvA))
    /\ Decision(1, Idx(ctf_cache, get_ctf_id(EvA)), pass["task"].now, {}).kind = "1h"
    /\ Decision(1, Idx(ctf_cache, get_ctf_id(EvA)), pass["task"].now, {}).chan /= None
    /\ delivered[<<1, get_ctf_id(EvA), "1h">>] = 0

\* the entries of the cache whose start parses
ParseableEntries ==
    LET Parses(x) == x.v.start.ok
    IN SelectSeq(ctf_cache, Parses)

\* C21: no evaluation of a cached event whose start does not parse, for any
\* tenant and at any instant, decides a kind or touches the marks; nothing is
\* recorded or delivered for such an event; and a pass started now hands over
\* what the pass over the other cached events hands over
C21_UnparseableStartExcluded ==
    /\ \A g \in Tenants, i \in 1..Len(ctf_cache) :
          ~ctf_cache[i].v.start.ok
          => /\ \A now \in Probes :
                   Decision(g, i, now, {}) = NoDecision(sent_notifications, guild_configs)
             /\ \A k \in Kinds : /\ ~IsSent(g, ctf_cache[i].k, k)
                                  /\ delivered[<<g, ctf_cache[i].k, k>>] = 0
    /\ HandedOver(PassMissing({}, TimePoints[clock]).p)
         = HandedOver(check_notification_triggers(TimePoints[clock], sent_notifications,
                         guild_configs, ParseableEntries, guild_ctf_status, {}).p)

\* the periodic pass delivered the 1h alert of a_1 to guild 1, went over b_2,
\* whose start does not parse, and is handing over the reminder of a_1 in
\* guild 2 with b_2 still to come
C21_Witness ==
    /\ pass["task"].pc = "send_reminder" /\ pass["task"].gid = 2
    /\ delivered[<<1, get_ctf_id(EvA), "1h">>] = 1
    /\ Has(ctf_cache, get_ctf_id(EvB))
    /\ ~Get(ctf_cache, get_ctf_id(EvB)).start.ok
    /\ Len(pass["task"].events) = 1 /\ pass["task"].events[1].k = get_ctf_id(EvB)

\* C22: a join pressed for a cached event of a joined pair whose channel exists
\* leaves the pair joined and changes nothing: no channel is created and the
\* stores, the files and the bindings stay as the first join left them
C22_JoinIdempotent ==
    [][\A g \in Tenants, e \in JoinEvents, ok \in BOOLEAN :
          (/\ join_ctf(g, get_ctf_id(e), ok)
           /\ EventChannel(g, sanitize_channel_name(e.title)) \in text_channels
           /\ StatusOf(guild_ctf_status, g, get_ctf_id(e)) = "joined")
          => /\ StatusOf(guild_ctf_status', g, get_ctf_id(e)) = "joined"
             /\ UNCHANGED <<guild_ctf_status, guild_configs, text_channels,
                            sent_notifications, ctf_cache, files>>]_vars

\* join was pressed in guild 1 for EvA, which guild 1 had joined in the earlier
\* run: the pair is joined, bound to its channel, and the press changed nothing
C22_Witness ==
    /\ last = [op |-> "join_ctf", g |-> 1] /\ used = 0
    /\ StatusOf(guild_ctf_status, 1, get_ctf_id(EvA)) = "joined"
    /\ get_ctf_channel(guild_configs, 1, get_ctf_id(EvA))
         = Some(EventChannel(1, sanitize_channel_name(EvA.title)))
    /\ EventChannel(1, sanitize_channel_name(EvA.title)) \in text_channels

\* an evaluation of the cached pair (gid, ctf_id) at instant now decides kind type
Eligible(gid, ctf_id, type, now) ==
    /\ Has(ctf_cache, ctf_id)
    /\ Decision(gid, Idx(ctf_cache, ctf_id), now, {}).kind = type

\* C23: while the process runs, a mark appears only in the step in which the
\* send of its (tenant, event, kind) returns, or in the load of a ready event;
\* a pass that starts or goes on without a send, and a send that raises, record
\* nothing; a send that raises leaves every store an evaluation reads as it
\* was, so the pair is as eligible afterwards as it was before
C23_MarkedOnlyAfterDelivery ==
    [][/\ sent_notifications' /= sent_notifications
          => \A t \in DeliveredKeys :
                (Recorded(sent_notifications', t[1], t[2], t[3]) /\ ~IsSent(t[1], t[2], t[3]))
                => \/ on_ready
                   \/ \E p \in Passes :
                         /\ send_returns(p)
                         /\ t = <<pass[p].gid, pass[p].pend.cid, pass[p].pend.kind>>
       /\ \A p \in Passes :
             send_raises(p)
             => UNCHANGED <<sent_notifications, guild_configs, guild_ctf_status,
                            ctf_cache>>]_vars

\* the send of the 24h alert of (1, a_1) raised and stopped the periodic job:
\* nothing was delivered or recorded and the pair is eligible at this instant
C23_Witness ==
    /\ jobs.started /\ ~jobs.check_alive /\ jobs.run = 1 /\ used = 0
    /\ \A p \in Passes : pass[p] = IdlePass
    /\ \A t \in DeliveredKeys : delivered[t] = 0 /\ ~IsSent(t[1], t[2], t[3])
    /\ Eligible(1, get_ctf_id(EvA), "24h", TimePoints[clock])

\* C24: every entry of the notification store is keyed by an integer tenant id
\* and maps each of the four kinds to a set of EventKeys
C24_NotificationStoreShape ==
    \A i \in 1..Len(sent_notifications) :
        /\ sent_notifications[i].k.t = "int"
        /\ sent_notifications[i].k.g \in Tenants
        /\ sent_notifications[i].v.ty = "set"
        /\ DOMAIN sent_notifications[i].v.m = Kinds
        /\ \A k \in Kinds : sent_notifications[i].v.m[k] \subseteq AllKeys

\* after a reset in guild 1 the store holds an entry under the string key of
\* guild 1 whose kinds map to lists, beside the integer-keyed entry with the
\* mark of a delivered alert
C24_Witness ==
    /\ last = [op |-> "slash_reset_notifications", g |-> 1]
    /\ Has(sent_notifications, StrKey(1))
    /\ Get(sent_notifications, StrKey(1)).ty = "list"
    /\ Has(sent_notifications, IntKey(1))
    /\ \E cid \in AllKeys, k \in Kinds : IsSent(1, cid, k)

\* the part of C24 that holds: the entries under integer keys, the ones the
\* sent-check and the mark read, map each of the four kinds to a set
C24_IntegerEntriesShape ==
    \A i \in 1..Len(sent_notifications) :
        sent_notifications[i].k.t = "int"
        => /\ sent_notifications[i].v.ty = "set"
           /\ DOMAIN sent_notifications[i].v.m = Kinds

\* C25: every joined (tenant, event) has a channel bound to the event in the
\* tenant's config
C25_JoinedHasBinding ==
    \A g \in Tenants, cid \in AllKeys :
        StatusOf(guild_ctf_status, g, cid) = "joined"
        => get_ctf_channel(guild_configs, g, cid) /= None

\* join was pressed in guild 2 for EvA while a channel of that name existed:
\* the pair is joined and no channel is bound, so inside the 1h window the
\* reminder finds no channel
C25_Witness ==
    /\ last = [op |-> "join_ctf", g |-> 2]
    /\ StatusOf(guild_ctf_status, 2, get_ctf_id(EvA)) = "joined"
    /\ get_ctf_channel(guild_configs, 2, get_ctf_id(EvA)) = None
    /\ EventChannel(2, sanitize_channel_name(EvA.title)) \in text_channels
    /\ In1hWindow(EvA.start.ts - TimePoints[clock])
    /\ Decision(2, Idx(ctf_cache, get_ctf_id(EvA)), TimePoints[clock], {}).kind = "channel_1h"
    /\ Decision(2, Idx(ctf_cache, get_ctf_id(EvA)), TimePoints[clock], {}).chan = None

\* C26: a step of an evaluation pass leaves the tenant configs and the
\* participation statuses as they are, creates no config entry, and (the
\* refresh of the setup command apart) leaves the event cache as it is
C26_PassFrame ==
    [][(guild_configs' /= guild_configs \/ guild_ctf_status' /= guild_ctf_status
          \/ ctf_cache' /= ctf_cache)
       => /\ (notification_check_task \/ \E p \in Passes : send_returns(p))
             => UNCHANGED <<guild_configs, guild_ctf_status, ctf_cache>>
          /\ setup_continues
             => UNCHANGED <<guild_configs, guild_ctf_status>>]_vars

\* after a ready event reloaded the configs without guild 2, the pass that was
\* delivering to guild 2 went on and left guild 2 a config created with the
\* defaults, which guild_configs.json does not hold
C26_Witness ==
    /\ last.op = "on_ready"
    /\ \E cid \in AllKeys : IsSent(2, cid, "24h") /\ delivered[<<2, cid, "24h">>] = 1
    /\ Has(guild_configs, IntKey(2))
    /\ Get(guild_configs, IntKey(2)) = NewConfig
    /\ ~Has(files.configs[1], StrKey(2))

====
